---- MODULE Spec2Model ----
(***************************************************************************)
(* Model of the asynchronous-job lifecycle client of                       *)
(* scripts/generate_presentation.py: GammaAPI.create_generation,           *)
(* get_generation, poll_until_complete and generate_and_wait.              *)
(*                                                                         *)
(* Time is the wall clock time.time(), in integer ticks.  It advances      *)
(* during a network exchange (by the exchange's duration, >= 0) and during *)
(* time.sleep(poll_interval) (by poll_interval); the statements between    *)
(* them take no time.                                                      *)
(*                                                                         *)
(* A session is a record: the parameters and locals of generate_and_wait / *)
(* poll_until_complete, the position in the code (pc), the outcome, and    *)
(* history fields that record what the session did (trace, observed, ...). *)
(***************************************************************************)
EXTENDS Integers, Sequences, FiniteSets, TLC

VARIABLES now, sess, cmd

vars == <<now, sess, cmd>>

----------------------------------------------------------------------------
(* Bounds of the model *)

MaxWait == 5
MaxInterval == 2
MaxFetchDelay == 2

\* For the concurrent sessions poll_interval ranges over 1..MaxConcInterval and
\* max_wait over 0..MaxConcWait.
MaxConcInterval == 2
MaxConcWait == 2

\* poll_interval ranges over 1..MaxInterval, max_wait over 0..MaxWait, and a
\* network exchange takes 0..MaxFetchDelay ticks.

----------------------------------------------------------------------------
(* Data *)

\* result.get("status"): the three recognised tags, an unrecognised one, and
\* "None" for a body without a status field.
Tags == {"pending", "completed", "failed", "processing", "None"}

Results == {"X", "Y"}

\* A decoded status body: its status tag and the rest of its fields.  A
\* completed body may carry gammaUrl and credits (a mapping, or null); the
\* optional pdfUrl and pptxUrl, which are only printed, are left out.
Payloads ==
    [status : Tags \ {"completed"}, result : Results,
     gammaUrl : {"absent"}, credits : {"absent"}]
    \cup [status : {"completed"}, result : Results,
          gammaUrl : {"url", "absent"}, credits : {"map", "absent", "null"}]

NoPayload == [status |-> "-", result |-> "-", gammaUrl |-> "-", credits |-> "-"]

\* The exceptions the transport raises: requests.get / requests.post
\* (ConnectionError), raise_for_status (HTTPError), response.json()
\* (JSONDecodeError).
TransportKinds == {"HTTPError", "ConnectionError", "JSONDecodeError"}

\* What one GET /generations/{id} exchange does: the transport raises, or
\* response.json() returns a JSON object ("ok") or JSON that is not an object
\* ("NotAnObject": a list, a string, null).
StatusResponses ==
    [kind : {"ok"}, detail : {"-"}, body : Payloads]
    \cup [kind : {"HTTPError"}, detail : {"401", "500"}, body : {NoPayload}]
    \cup [kind : {"ConnectionError", "JSONDecodeError", "NotAnObject"},
          detail : {"-"}, body : {NoPayload}]

\* What one POST /generations exchange does; generationId "absent" is a JSON
\* object without the generationId key.
CreateResponses ==
    [kind : {"ok"}, detail : {"-"}, generationId : {"g1", "g2", "absent"}]
    \cup [kind : {"HTTPError"}, detail : {"401", "500"}, generationId : {"absent"}]
    \cup [kind : {"ConnectionError", "JSONDecodeError", "NotAnObject"},
          detail : {"-"}, generationId : {"absent"}]

NoOutcome == [kind |-> "none", payload |-> NoPayload, detail |-> "-"]

\* A printed line: its fixed text and the status it shows (the elapsed seconds
\* of a "Status" line are left out of the model).
Line(text, status) == [text |-> text, status |-> status]

\* The state of a session at the call of generate_and_wait.  self names the
\* GammaAPI instance the method is called on.  The fields after "out" are
\* history: what the network and the clock saw the session do.
NewSession(v, i, d) ==
    [pc |-> "generate_and_wait", self |-> "client",
     verbose |-> v, poll_interval |-> i, max_wait |-> d,
     generation_id |-> "None", start_time |-> 0, elapsed |-> 0,
     result |-> NoPayload, status |-> "None",
     outcome |-> NoOutcome,
     out |-> <<>>,
     trace |-> <<>>, observed |-> <<>>, served |-> NoPayload,
     fetchAt |-> 0, fetchIds |-> <<>>, fetchTime |-> 0,
     createdWith |-> "-", transportError |-> NoOutcome]

----------------------------------------------------------------------------
(* The code, one operator per step *)

\* raise X(...): no except clause in generate_and_wait or poll_until_complete, so
\* the exception leaves generate_and_wait.
Raise(s, kind, payload, detail) ==
    [s EXCEPT !.pc = "done",
              !.outcome = [kind |-> kind, payload |-> payload, detail |-> detail]]

\* return result
Return(s, payload) ==
    [s EXCEPT !.pc = "done",
              !.outcome = [kind |-> "return", payload |-> payload, detail |-> "-"]]

\* if verbose: print(...)
Emit(s, line) ==
    IF s.verbose THEN [s EXCEPT !.out = Append(@, line)] ELSE s

\* Mutant: result.get("generationId") instead of result["generationId"], so a
\* body without the key yields None and the session goes on to poll.
create_generation_get(s, resp) ==
    IF resp.kind \in TransportKinds
    THEN Raise(s, resp.kind, NoPayload, resp.detail)
    ELSE IF resp.kind = "NotAnObject"
    THEN Raise(s, "AttributeError", NoPayload, "get")
    ELSE [s EXCEPT !.generation_id =
                       IF resp.generationId = "absent" THEN "None" ELSE resp.generationId,
                   !.pc = "poll_until_complete"]

\* create_generation: POST, raise_for_status, json(), result["generationId"].
create_generation(s, resp) ==
    IF resp.kind \in TransportKinds
    THEN Raise(s, resp.kind, NoPayload, resp.detail)
    ELSE IF resp.kind = "NotAnObject"
    THEN Raise(s, "TypeError", NoPayload, "generationId")
    ELSE IF resp.generationId = "absent"
    THEN Raise(s, "KeyError", NoPayload, "generationId")
    ELSE [s EXCEPT !.generation_id = resp.generationId,
                   !.pc = "poll_until_complete"]

\* generate_and_wait up to the call of poll_until_complete.
generate_and_wait(s, resp) ==
    LET s1 == create_generation(Emit(s, Line("Creating generation...", "-")), resp)
    IN  IF s1.pc = "done"
        THEN s1
        ELSE Emit(Emit(s1, Line("Generation ID", "-")),
                  Line("Polling for completion...", "-"))

\* start_time = time.time()
poll_until_complete(s, t) ==
    [s EXCEPT !.start_time = t, !.pc = "while"]

\* Mutant: the check asks whether the next sleep would overrun the deadline.
deadline_exceeded_early(s, elapsed) == elapsed + s.poll_interval > s.max_wait

\* Mutant: the comparison is >= instead of >.
deadline_exceeded_ge(s, elapsed) == elapsed >= s.max_wait

\* if elapsed > max_wait
deadline_exceeded(s, elapsed) == elapsed > s.max_wait

\* Mutant: the deadline is checked against the previous reading of elapsed.
loop_head_stale(s, t) ==
    LET s1 == [s EXCEPT !.elapsed = t - s.start_time]
    IN  IF deadline_exceeded(s, s.elapsed)
        THEN Raise(s1, "TimeoutError", NoPayload, "max_wait")
        ELSE [s1 EXCEPT !.pc = "get_generation"]

\* Mutant: start_time is kept on the instance (self.start_time), so elapsed is
\* measured from the latest start_time written by a session on the same instance.
loop_head_shared_start(s, t) ==
    LET starts == {sess[q].start_time :
                      q \in {r \in DOMAIN sess :
                                 /\ sess[r].self = s.self
                                 /\ sess[r].pc \notin {"generate_and_wait",
                                                       "poll_until_complete"}}}
        shared == CHOOSE m \in starts \cup {s.start_time} :
                      \A x \in starts \cup {s.start_time} : m >= x
        s1 == [s EXCEPT !.elapsed = t - shared]
    IN  IF deadline_exceeded(s1, s1.elapsed)
        THEN Raise(s1, "TimeoutError", NoPayload, "max_wait")
        ELSE [s1 EXCEPT !.pc = "get_generation"]

\* The head of the loop: elapsed = time.time() - start_time and the deadline check.
loop_head(s, t) ==
    LET s1 == [s EXCEPT !.elapsed = t - s.start_time]
    IN  IF deadline_exceeded(s1, s1.elapsed)
        THEN Raise(s1, "TimeoutError", NoPayload, "max_wait")
        ELSE [s1 EXCEPT !.pc = "get_generation"]

\* Mutant: a failed exchange is swallowed and an empty body {} is returned.
get_generation_swallow(s, resp) ==
    IF resp.kind # "ok"
    THEN [s EXCEPT !.result = NoPayload, !.status = "None", !.pc = "classify"]
    ELSE [s EXCEPT !.result = resp.body,
                   !.status = resp.body.status,
                   !.pc = "classify"]

\* result = self.get_generation(generation_id); status = result.get("status").
\* A result that is not a mapping has no get: AttributeError.
get_generation(s, resp) ==
    IF resp.kind \in TransportKinds
    THEN Raise(s, resp.kind, NoPayload, resp.detail)
    ELSE IF resp.kind = "NotAnObject"
    THEN Raise(s, "AttributeError", NoPayload, "get")
    ELSE [s EXCEPT !.result = resp.body,
                   !.status = resp.body.status,
                   !.pc = "classify"]

\* Mutant: the first branch compares with "complete".
classify_typo(s) ==
    LET s1 == Emit(s, Line("Status", s.status))
    IN  IF s.status = "complete" THEN Return(s1, s.result)
        ELSE IF s.status = "failed" THEN Raise(s1, "RuntimeError", s.result, "-")
        ELSE IF s.status = "pending" THEN [s1 EXCEPT !.pc = "sleep"]
        ELSE Raise(s1, "ValueError", NoPayload, s.status)

\* Mutant: every status that is neither completed nor failed sleeps and polls again.
classify_unknown_retries(s) ==
    LET s1 == Emit(s, Line("Status", s.status))
    IN  IF s.status = "completed" THEN Return(s1, s.result)
        ELSE IF s.status = "failed" THEN Raise(s1, "RuntimeError", s.result, "-")
        ELSE [s1 EXCEPT !.pc = "sleep"]

\* Mutant: the RuntimeError carries the status tag only, not the body.
classify_failed_no_payload(s) ==
    LET s1 == Emit(s, Line("Status", s.status))
    IN  IF s.status = "completed" THEN Return(s1, s.result)
        ELSE IF s.status = "failed" THEN Raise(s1, "RuntimeError", NoPayload, s.status)
        ELSE IF s.status = "pending" THEN [s1 EXCEPT !.pc = "sleep"]
        ELSE Raise(s1, "ValueError", NoPayload, s.status)

\* Mutant: a failed job is reported with the timeout's exception.
classify_failed_timeout(s) ==
    LET s1 == Emit(s, Line("Status", s.status))
    IN  IF s.status = "completed" THEN Return(s1, s.result)
        ELSE IF s.status = "failed" THEN Raise(s1, "TimeoutError", s.result, "-")
        ELSE IF s.status = "pending" THEN [s1 EXCEPT !.pc = "sleep"]
        ELSE Raise(s1, "ValueError", NoPayload, s.status)

\* Mutant: time.sleep is indented under "if verbose:", so a silent session
\* goes back to the head of the loop without sleeping.
classify_sleep_if_verbose(s) ==
    LET s1 == Emit(s, Line("Status", s.status))
    IN  IF s.status = "completed" THEN Return(s1, s.result)
        ELSE IF s.status = "failed" THEN Raise(s1, "RuntimeError", s.result, "-")
        ELSE IF s.status = "pending"
        THEN [s1 EXCEPT !.pc = IF s.verbose THEN "sleep" ELSE "while"]
        ELSE Raise(s1, "ValueError", NoPayload, s.status)

\* The progress print and the if / elif chain on status.
classify(s) ==
    LET s1 == Emit(s, Line("Status", s.status))
    IN  IF s.status = "completed" THEN Return(s1, s.result)
        ELSE IF s.status = "failed" THEN Raise(s1, "RuntimeError", s.result, "-")
        ELSE IF s.status = "pending" THEN [s1 EXCEPT !.pc = "sleep"]
        ELSE Raise(s1, "ValueError", NoPayload, s.status)

\* time.sleep(poll_interval), then back to the head of the loop.
sleep(s) ==
    [s EXCEPT !.pc = "while"]

\* Mutant: the sleep lasts one tick more than poll_interval.
sleep_duration_long(s) == s.poll_interval + 1

\* Mutant: the sleep is cut to what is left of the deadline,
\* time.sleep(min(poll_interval, max_wait - elapsed)).
sleep_duration_remaining(s) ==
    IF s.max_wait - s.elapsed < s.poll_interval
    THEN s.max_wait - s.elapsed
    ELSE s.poll_interval

\* How long time.sleep(poll_interval) takes.
sleep_duration(s) == s.poll_interval

----------------------------------------------------------------------------
(* History: what the environment records of a session's network calls and sleeps *)

SawCreate(s, resp) ==
    [s EXCEPT !.trace = Append(@, "create"),
              !.createdWith = IF resp.kind = "ok" THEN resp.generationId ELSE resp.kind,
              !.transportError =
                  IF resp.kind \notin TransportKinds THEN @
                  ELSE [kind |-> resp.kind, payload |-> NoPayload, detail |-> resp.detail]]

\* t is the clock when the request is issued, d how long the exchange takes.
SawFetch(s, resp, t, d) ==
    [s EXCEPT !.trace = Append(@, "fetch"),
              !.fetchAt = t - s.start_time,
              !.fetchTime = @ + d,
              !.fetchIds = Append(@, s.generation_id),
              !.observed = Append(@, IF resp.kind = "ok" THEN resp.body.status ELSE resp.kind),
              !.served = resp.body,
              !.transportError =
                  IF resp.kind \notin TransportKinds THEN @
                  ELSE [kind |-> resp.kind, payload |-> NoPayload, detail |-> resp.detail]]

SawSleep(s) == [s EXCEPT !.trace = Append(@, "sleep")]

Fetches(s) == Len(s.fetchIds)

----------------------------------------------------------------------------
(* One session *)

\* No command: the session is called directly.
NoCmd ==
    [prog |-> "-", pc |-> "-", argv |-> "-", stdin |-> "-", key |-> "-",
     payload |-> [shape |-> "-", names |-> {}],
     api_key |-> "-", todo |-> <<>>, requests |-> <<>>,
     exit |-> "-", stdout |-> <<>>, stderr |-> <<>>]

Init ==
    /\ now = 0
    /\ cmd = NoCmd
    /\ \E v \in BOOLEAN, i \in 1..MaxInterval, d \in 0..MaxWait :
          sess = [p \in {"A"} |-> NewSession(v, i, d)]

Create(p) ==
    /\ sess[p].pc = "generate_and_wait"
    /\ \E resp \in CreateResponses, d \in 0..MaxFetchDelay :
          /\ sess' = [sess EXCEPT ![p] = generate_and_wait(SawCreate(@, resp), resp)]
          /\ now' = now + d
    /\ UNCHANGED cmd

PollStart(p) ==
    /\ sess[p].pc = "poll_until_complete"
    /\ sess' = [sess EXCEPT ![p] = poll_until_complete(@, now)]
    /\ UNCHANGED <<now, cmd>>

LoopHead(p) ==
    /\ sess[p].pc = "while"
    /\ sess' = [sess EXCEPT ![p] = loop_head(@, now)]
    /\ UNCHANGED <<now, cmd>>

Fetch(p) ==
    /\ sess[p].pc = "get_generation"
    /\ \E resp \in StatusResponses, d \in 0..MaxFetchDelay :
          /\ sess' = [sess EXCEPT ![p] = get_generation(SawFetch(@, resp, now, d), resp)]
          /\ now' = now + d
    /\ UNCHANGED cmd

Classify(p) ==
    /\ sess[p].pc = "classify"
    /\ sess' = [sess EXCEPT ![p] = classify(@)]
    /\ UNCHANGED <<now, cmd>>

Sleep(p) ==
    /\ sess[p].pc = "sleep"
    /\ sess' = [sess EXCEPT ![p] = sleep(SawSleep(@))]
    /\ now' = now + sleep_duration(sess[p])
    /\ UNCHANGED cmd

Next ==
    \/ Create("A")
    \/ PollStart("A")
    \/ LoopHead("A")
    \/ Fetch("A")
    \/ Classify("A")
    \/ Sleep("A")

Spec == Init /\ [][Next]_vars

\* The interpreter keeps executing a session that has not ended.
FairSpec == Spec /\ WF_vars(Next)

----------------------------------------------------------------------------
(* Two sessions in lockstep: "A" with verbose=True, "B" with verbose=False, the
   same poll_interval and max_wait, given the same server responses and the same
   clock readings.  Each session takes the step its own pc asks for. *)

Step(s, cresp, sresp, t, d) ==
    CASE s.pc = "generate_and_wait" -> generate_and_wait(SawCreate(s, cresp), cresp)
      [] s.pc = "poll_until_complete" -> poll_until_complete(s, t)
      [] s.pc = "while" -> loop_head(s, t)
      [] s.pc = "get_generation" -> get_generation(SawFetch(s, sresp, t, d), sresp)
      [] s.pc = "classify" -> classify(s)
      [] s.pc = "sleep" -> sleep(SawSleep(s))
      [] OTHER -> s

\* How far the clock moves during the step of s.
Duration(s, d) ==
    CASE s.pc \in {"generate_and_wait", "get_generation"} -> d
      [] s.pc = "sleep" -> sleep_duration(s)
      [] OTHER -> 0

InitTwin ==
    /\ now = 0
    /\ cmd = NoCmd
    /\ \E i \in 1..MaxInterval, d \in 0..MaxWait :
          sess = [p \in {"A", "B"} |-> NewSession(p = "A", i, d)]

\* The inputs a step can read: all of S when some session is at one of pcs,
\* and one arbitrary element of S (which no session reads) otherwise.
Inputs(S, pcs) ==
    IF \E p \in DOMAIN sess : sess[p].pc \in pcs THEN S ELSE {CHOOSE x \in S : TRUE}

TwinStep ==
    /\ \E p \in DOMAIN sess : sess[p].pc # "done"
    /\ \E cresp \in Inputs(CreateResponses, {"generate_and_wait"}),
          sresp \in Inputs(StatusResponses, {"get_generation"}),
          d \in Inputs(0..MaxFetchDelay, {"generate_and_wait", "get_generation"}) :
          /\ sess' = [p \in DOMAIN sess |-> Step(sess[p], cresp, sresp, now, d)]
          /\ now' = now + Duration(sess["A"], d)
    /\ UNCHANGED cmd

NextTwin == TwinStep

SpecTwin == InitTwin /\ [][NextTwin]_vars

----------------------------------------------------------------------------
(* Two concurrent sessions "A" and "B" on one shared GammaAPI instance, their
   steps interleaved in any order on one wall clock, the server handing out a
   different handle to each.  The clock advances while a session sleeps; the
   network exchanges of the concurrent sessions are instantaneous, so what a
   session reads off the clock depends on the other only through the order of
   the sleeps.  "A1" and "B1" are the same calls run alone, each
   on an instance of its own: whenever "A" ("B") takes a step, "A1" ("B1")
   takes the step its own pc asks for with the same server response and the
   same clock reading. *)

Alone(p) == IF p = "A" THEN "A1" ELSE "B1"

\* "A" prints and "B" is silent; each has its own poll_interval and max_wait.
InitConc ==
    /\ now = 0
    /\ cmd = NoCmd
    /\ \E ia \in 1..MaxConcInterval, ib \in 1..MaxConcInterval,
          da \in 0..MaxConcWait, db \in 0..MaxConcWait :
          sess = [p \in {"A", "B", "A1", "B1"} |->
                    IF p \in {"A", "A1"}
                    THEN [NewSession(TRUE, ia, da) EXCEPT
                             !.self = IF p = "A" THEN "shared" ELSE p]
                    ELSE [NewSession(FALSE, ib, db) EXCEPT
                             !.self = IF p = "B" THEN "shared" ELSE p]]

\* The server's answers to the concurrent sessions: handle "g1" for "A" and
\* "g2" for "B", or a creation that fails; status bodies of every tag, or a
\* status fetch that fails.
ConcCreateResponses(p) ==
    {r \in CreateResponses :
        \/ r.kind = "ok" /\ r.generationId = (IF p = "A" THEN "g1" ELSE "g2")
        \/ r.kind = "HTTPError" /\ r.detail = "500"}

ConcStatusResponses ==
    {r \in StatusResponses :
        \/ /\ r.kind = "ok" /\ r.body.result = "X"
           /\ r.body.status = "completed" =>
                  r.body.gammaUrl = "url" /\ r.body.credits = "map"
        \/ r.kind = "HTTPError" /\ r.detail = "500"}

\* The inputs the step of session p can read.
InputsFor(p, S, pcs) ==
    IF sess[p].pc \in pcs THEN S ELSE {CHOOSE x \in S : TRUE}

ConcStep(p) ==
    /\ sess[p].pc # "done"
    /\ \E cresp \in InputsFor(p, ConcCreateResponses(p), {"generate_and_wait"}),
          sresp \in InputsFor(p, ConcStatusResponses, {"get_generation"}),
          d \in {0} :
          /\ sess' = [sess EXCEPT
                         ![p] = Step(@, cresp, sresp, now, d),
                         ![Alone(p)] = Step(@, cresp, sresp, now, d)]
          /\ now' = now + Duration(sess[p], d)
    /\ UNCHANGED cmd

NextConc ==
    \/ ConcStep("A")
    \/ ConcStep("B")

SpecConc == InitConc /\ [][NextConc]_vars

----------------------------------------------------------------------------
(* The two commands: main() of generate_presentation.py and of
   list_resources.py.  cmd is the state of the running command; the session
   "A" is the generate_and_wait call that generate_presentation's main()
   makes.  requests is the history of the listing requests issued. *)

\* poll_interval: int = 10 and max_wait: int = 300, the defaults main() uses.
DefaultPollInterval == 10

DefaultMaxWait == 300

\* required_fields = ["inputText", "textMode", "format"]
required_fields == {"inputText", "textMode", "format"}

\* The values of GAMMA_API_KEY: unset, set to the empty string, set to a key.
EnvKeys == {"None", "", "sk-gamma"}

\* A decoded JSON value, as far as "f in payload" can tell: its shape and the
\* required names it holds, as keys of an object, as elements of a list, or
\* as substrings of a string.  A scalar is a number, a boolean or null.
JsonValues ==
    [shape : {"object", "list", "string"}, names : SUBSET required_fields]
    \cup {[shape |-> "scalar", names |-> {}]}

\* What standard input holds: nothing to read (a terminal), text that is not
\* JSON, or a JSON value.
StdinInputs ==
    {[shape |-> "none", names |-> {}], [shape |-> "invalid", names |-> {}]}
    \cup JsonValues

\* run_example()
run_example == [shape |-> "object", names |-> required_fields]

GenerateArgs == {"-", "--example"}

ListArgs == {"-", "themes", "folders", "all", "other"}

\* What a listing request can get back.
ListResponses ==
    {[kind |-> "ok"], [kind |-> "HTTPError"], [kind |-> "ConnectionError"],
     [kind |-> "JSONDecodeError"], [kind |-> "NotAnObject"]}

\* print(..., file=sys.stderr)
Err(c, text) == [c EXCEPT !.stderr = Append(@, text)]

\* print(...)
Out(c, text) == [c EXCEPT !.stdout = Append(@, text)]

\* sys.exit(status), the end of main(), or an exception nothing catches
Exit(c, status) == [c EXCEPT !.pc = "exit", !.exit = status]

\* main(), "Determine payload source"
read_input(c) ==
    IF c.argv = "--example"
    THEN [Out(c, "Running built-in example") EXCEPT
              !.pc = "client", !.payload = run_example]
    ELSE IF c.stdin.shape = "none"
    THEN Exit(Err(c, "Error: No input provided"), "1")
    ELSE IF c.stdin.shape = "invalid"
    THEN Exit(Err(c, "Error: Invalid JSON from stdin"), "1")
    ELSE [c EXCEPT !.pc = "client", !.payload = c.stdin]

\* Mutant: "if self.api_key is None", so an empty key is accepted.
api_key_is_none(key) == key = "None"

\* if not self.api_key
api_key_missing(key) == key \in {"None", ""}

\* client = GammaAPI() and the except ValueError around it
new_client(c) ==
    IF api_key_missing(c.key)
    THEN Exit(Err(c, "Error: API key required"), "1")
    ELSE [c EXCEPT !.pc = "validate", !.api_key = c.key]

\* f in payload
contains(payload, f) == f \in payload.names

\* [f for f in required_fields if f not in payload]
missing_fields(payload) == {f \in required_fields : ~contains(payload, f)}

\* main(), "Validate required fields".  On a scalar "f not in payload"
\* raises a TypeError nothing catches.
validate(c) ==
    IF c.payload.shape = "scalar"
    THEN Exit(Err(c, "Traceback: TypeError"), "1")
    ELSE IF missing_fields(c.payload) # {}
    THEN Exit(Err(c, "Error: Missing required fields"), "1")
    ELSE [c EXCEPT !.pc = "generate"]

\* print("Starting generation...")
start_generation(c) == [Out(c, "Starting generation") EXCEPT !.pc = "core"]

\* Mutant: the except Exception branch prints and falls off the end of main().
report_no_exit(c, outcome) ==
    IF outcome.kind = "return"
    THEN LET c1 == Out(c, "Generation complete") IN
         IF outcome.payload.gammaUrl = "absent"
         THEN Exit(Err(c1, "Error"), "0")
         ELSE LET c2 == Out(c1, "View in Gamma") IN
              IF outcome.payload.credits = "null"
              THEN Exit(Err(c2, "Error"), "0")
              ELSE Exit(Out(Out(c2, "Credits used"), "Credits remaining"), "0")
    ELSE IF outcome.kind = "HTTPError"
    THEN Exit(Err(Err(c, "API Error"), "Response"), "1")
    ELSE Exit(Err(c, "Error"), "0")

\* main(), what follows generate_and_wait inside the try, and the two except
\* branches.  result['gammaUrl'] raises KeyError on a body without the key and
\* credits.get raises AttributeError on a null credits; except Exception
\* catches both.
report(c, outcome) ==
    IF outcome.kind = "return"
    THEN LET c1 == Out(c, "Generation complete") IN
         IF outcome.payload.gammaUrl = "absent"
         THEN Exit(Err(c1, "Error"), "1")
         ELSE LET c2 == Out(c1, "View in Gamma") IN
              IF outcome.payload.credits = "null"
              THEN Exit(Err(c2, "Error"), "1")
              ELSE Exit(Out(Out(c2, "Credits used"), "Credits remaining"), "0")
    ELSE IF outcome.kind = "HTTPError"
    THEN Exit(Err(Err(c, "API Error"), "Response"), "1")
    ELSE Exit(Err(c, "Error"), "1")

\* list_resources.main(), if len(sys.argv) < 2
list_usage(c) ==
    IF c.argv = "-"
    THEN Exit(Out(c, "Usage"), "1")
    ELSE [c EXCEPT !.pc = "client"]

\* lister = GammaResourceLister(); its ValueError reaches except Exception
new_lister(c) ==
    IF api_key_missing(c.key)
    THEN Exit(Err(c, "Error: API key required"), "1")
    ELSE [c EXCEPT !.pc = "dispatch", !.api_key = c.key]

\* list_resources.main(), the branch on command
dispatch(c) ==
    IF c.argv = "themes" THEN [c EXCEPT !.pc = "list", !.todo = <<"themes">>]
    ELSE IF c.argv = "folders" THEN [c EXCEPT !.pc = "list", !.todo = <<"folders">>]
    ELSE IF c.argv = "all" THEN [c EXCEPT !.pc = "list", !.todo = <<"themes", "folders">>]
    ELSE Exit(Out(Out(c, "Unknown command"), "Usage"), "1")

\* print_themes() or print_folders(), given what its request got back, and the
\* except branches of main()
print_resources(c, resp) ==
    LET c1 == [c EXCEPT !.requests = Append(@, Head(c.todo)), !.todo = Tail(@)] IN
    IF resp.kind = "HTTPError"
    THEN Exit(Err(Err(c1, "API Error"), "Response"), "1")
    ELSE IF resp.kind # "ok"
    THEN Exit(Err(c1, "Error"), "1")
    ELSE LET c2 == Out(c1, Head(c.todo)) IN
         IF c2.todo = <<>> THEN Exit(c2, "0") ELSE c2

NewCmd(prog, argv, stdin, key) ==
    [prog |-> prog, pc |-> "main", argv |-> argv, stdin |-> stdin, key |-> key,
     payload |-> [shape |-> "-", names |-> {}],
     api_key |-> "-", todo |-> <<>>, requests |-> <<>>,
     exit |-> "-", stdout |-> <<>>, stderr |-> <<>>]

\* The session main() will run, before the call.
Idle == [NewSession(TRUE, DefaultPollInterval, DefaultMaxWait) EXCEPT !.pc = "idle"]

InitCmd ==
    /\ now = 0
    /\ sess = [p \in {"A"} |-> Idle]
    /\ \E key \in EnvKeys :
         \/ \E argv \in GenerateArgs, stdin \in StdinInputs :
              /\ argv = "--example" => stdin.shape = "none"
              /\ cmd = NewCmd("generate", argv, stdin, key)
         \/ \E argv \in ListArgs :
              cmd = NewCmd("list", argv, [shape |-> "none", names |-> {}], key)

ReadInput ==
    /\ cmd.prog = "generate" /\ cmd.pc = "main"
    /\ cmd' = read_input(cmd)
    /\ UNCHANGED <<now, sess>>

NewClient ==
    /\ cmd.prog = "generate" /\ cmd.pc = "client"
    /\ cmd' = new_client(cmd)
    /\ UNCHANGED <<now, sess>>

Validate ==
    /\ cmd.prog = "generate" /\ cmd.pc = "validate"
    /\ cmd' = validate(cmd)
    /\ UNCHANGED <<now, sess>>

Generate ==
    /\ cmd.prog = "generate" /\ cmd.pc = "generate"
    /\ cmd' = start_generation(cmd)
    /\ sess' = [sess EXCEPT !["A"].pc = "generate_and_wait"]
    /\ UNCHANGED now

\* result = client.generate_and_wait(payload, verbose=True): the session takes
\* the step its pc asks for.  The exchanges of the command's session are
\* instantaneous: the clock advances while it sleeps.
GenerateAndWait ==
    /\ cmd.prog = "generate" /\ cmd.pc = "core" /\ sess["A"].pc # "done"
    /\ \E cresp \in Inputs(CreateResponses, {"generate_and_wait"}),
          sresp \in Inputs(StatusResponses, {"get_generation"}),
          d \in {0} :
          /\ sess' = [sess EXCEPT !["A"] = Step(@, cresp, sresp, now, d)]
          /\ now' = now + Duration(sess["A"], d)
    /\ UNCHANGED cmd

Report ==
    /\ cmd.prog = "generate" /\ cmd.pc = "core" /\ sess["A"].pc = "done"
    /\ cmd' = report(cmd, sess["A"].outcome)
    /\ UNCHANGED <<now, sess>>

ListUsage ==
    /\ cmd.prog = "list" /\ cmd.pc = "main"
    /\ cmd' = list_usage(cmd)
    /\ UNCHANGED <<now, sess>>

NewLister ==
    /\ cmd.prog = "list" /\ cmd.pc = "client"
    /\ cmd' = new_lister(cmd)
    /\ UNCHANGED <<now, sess>>

Dispatch ==
    /\ cmd.prog = "list" /\ cmd.pc = "dispatch"
    /\ cmd' = dispatch(cmd)
    /\ UNCHANGED <<now, sess>>

PrintResources ==
    /\ cmd.prog = "list" /\ cmd.pc = "list"
    /\ \E resp \in ListResponses, d \in 0..MaxFetchDelay :
          /\ cmd' = print_resources(cmd, resp)
          /\ now' = now + d
    /\ UNCHANGED sess

NextCmd ==
    \/ ReadInput
    \/ NewClient
    \/ Validate
    \/ Generate
    \/ GenerateAndWait
    \/ Report
    \/ ListUsage
    \/ NewLister
    \/ Dispatch
    \/ PrintResources

SpecCmd == InitCmd /\ [][NextCmd]_vars

----------------------------------------------------------------------------
(* Properties *)

SA == sess["A"]

Last(seq) == seq[Len(seq)]

LastObserved(s) == IF s.observed = <<>> THEN "-" ELSE Last(s.observed)

AllPending(seq) == \A i \in 1..Len(seq) : seq[i] = "pending"

\* Every observation before the last one was "pending".
PendingBefore(s) == \A i \in 1..(Len(s.observed) - 1) : s.observed[i] = "pending"

Count(seq, x) == Cardinality({i \in 1..Len(seq) : seq[i] = x})

\* poll_until_complete has read start_time.
Polling(s) == s.pc \notin {"generate_and_wait", "poll_until_complete"} /\ s.generation_id # "None"

\* The wall-clock time since start_time.
TrueElapsed(s) == now - s.start_time

UnknownTags == Tags \ {"pending", "completed", "failed"}

\* C1: a session whose every status fetch returns "pending" ends with
\* TimeoutError; a TimeoutError is raised only when the elapsed time is at or
\* after the deadline; and with 0 < poll_interval < max_wait the session ends.
C1_AlwaysPendingTimesOut ==
    /\ [](SA.pc = "done" /\ SA.generation_id # "None" /\ AllPending(SA.observed)
            => SA.outcome.kind = "TimeoutError")
    /\ [](SA.outcome.kind = "TimeoutError"
            => SA.elapsed >= SA.max_wait /\ TrueElapsed(SA) >= SA.max_wait)
    /\ ((0 < SA.poll_interval /\ SA.poll_interval < SA.max_wait) => <>(SA.pc = "done"))

C1_Witness ==
    /\ SA.pc = "done" /\ SA.outcome.kind = "TimeoutError"
    /\ 0 < SA.poll_interval /\ SA.poll_interval < SA.max_wait
    /\ Len(SA.observed) >= 3 /\ AllPending(SA.observed)

\* C2: when polls 1..n-1 returned "pending" and the n-th returned "completed",
\* the session returns exactly the n-th poll's body, and that fetch is its last
\* network call or sleep (n fetches, n-1 sleeps).
C2_CompletedReturnsPayload ==
    LastObserved(SA) = "completed" =>
        /\ PendingBefore(SA)
        /\ Last(SA.trace) = "fetch"
        /\ Count(SA.trace, "fetch") = Len(SA.observed)
        /\ Count(SA.trace, "sleep") = Len(SA.observed) - 1
        /\ \/ SA.pc = "classify" /\ SA.outcome = NoOutcome
           \/ /\ SA.pc = "done"
              /\ SA.outcome = [kind |-> "return", payload |-> SA.served, detail |-> "-"]

C2_Witness ==
    /\ SA.pc = "done" /\ SA.outcome.kind = "return"
    /\ Len(SA.observed) = 3 /\ SA.observed[3] = "completed"
    /\ SA.outcome.payload.result = "Y"

\* C3: a status tag outside {pending, completed, failed} (an absent status
\* included) ends the session with ValueError carrying the tag on its first
\* observation: no sleep and no fetch follows it.
C3_UnknownStatusFails ==
    LastObserved(SA) \in UnknownTags =>
        /\ PendingBefore(SA)
        /\ Last(SA.trace) = "fetch"
        /\ Count(SA.trace, "sleep") = Len(SA.observed) - 1
        /\ \/ SA.pc = "classify" /\ SA.outcome = NoOutcome
           \/ /\ SA.pc = "done"
              /\ SA.outcome = [kind |-> "ValueError", payload |-> NoPayload,
                               detail |-> LastObserved(SA)]

C3_Witness ==
    /\ SA.pc = "done" /\ SA.outcome.kind = "ValueError"
    /\ SA.outcome.detail = "None" /\ Len(SA.observed) = 2

\* C4: a "failed" status ends the session with RuntimeError carrying the whole
\* body of that status fetch: no sleep and no fetch follows it.
C4_FailedRaisesWithPayload ==
    LastObserved(SA) = "failed" =>
        /\ Last(SA.trace) = "fetch"
        /\ Count(SA.trace, "sleep") = Len(SA.observed) - 1
        /\ \/ SA.pc = "classify" /\ SA.outcome = NoOutcome
           \/ /\ SA.pc = "done"
              /\ SA.outcome = [kind |-> "RuntimeError", payload |-> SA.served,
                               detail |-> "-"]

C4_Witness ==
    /\ SA.pc = "done" /\ SA.outcome.kind = "RuntimeError"
    /\ SA.outcome.payload = [status |-> "failed", result |-> "X",
                             gammaUrl |-> "absent", credits |-> "absent"]
    /\ Len(SA.observed) = 2

\* C5: no status fetch is issued when the time since start_time exceeds
\* max_wait, and a session that reaches the head of the loop past the deadline
\* raises TimeoutError without another network call.
C5_CheckBeforeFetch ==
    /\ [](/\ Fetches(SA) > 0 => SA.fetchAt <= SA.max_wait
          /\ SA.pc = "get_generation" => TrueElapsed(SA) <= SA.max_wait)
    /\ [][SA.pc = "while" /\ TrueElapsed(SA) > SA.max_wait
            => /\ SA'.pc = "done"
               /\ SA'.outcome.kind = "TimeoutError"
               /\ SA'.trace = SA.trace]_vars

\* The deadline was crossed during a sleep and the session timed out.
C5_Witness ==
    /\ SA.pc = "done" /\ SA.outcome.kind = "TimeoutError"
    /\ Last(SA.trace) = "sleep"
    /\ SA.fetchAt + SA.poll_interval > SA.max_wait
    /\ SA.fetchAt <= SA.max_wait

\* C6: a creation response without generationId makes create_generation fail
\* (KeyError on a JSON object without the key, TypeError on JSON that is not an
\* object) and the session ends with no status fetch and no sleep.
C6_MissingIdNoPolling ==
    SA.createdWith \in {"absent", "NotAnObject"} =>
        /\ SA.pc = "done"
        /\ SA.outcome = [kind |-> IF SA.createdWith = "absent" THEN "KeyError"
                                                              ELSE "TypeError",
                         payload |-> NoPayload, detail |-> "generationId"]
        /\ SA.trace = <<"create">>
        /\ SA.fetchIds = <<>>

C6_Witness == SA.createdWith = "absent" /\ SA.pc = "done"

\* C7: an error raised by the transport in create_generation or in a status
\* fetch ends the session with that same error; the failed exchange is the
\* session's last network call and no sleep follows it.
C7_TransportErrorPropagates ==
    SA.transportError # NoOutcome =>
        /\ SA.pc = "done"
        /\ SA.outcome = SA.transportError
        /\ SA.outcome.kind \in TransportKinds
        /\ Last(SA.trace) \in {"create", "fetch"}
        /\ LastObserved(SA) \in TransportKinds \cup {"-"}

C7_Witness ==
    /\ SA.pc = "done"
    /\ SA.outcome = [kind |-> "HTTPError", payload |-> NoPayload, detail |-> "500"]
    /\ Len(SA.observed) = 2

\* C8: a session that has ended has exactly one outcome, one of return,
\* RuntimeError, TimeoutError, ValueError, a decode error (KeyError, TypeError,
\* AttributeError) or a transport error, and a session that has not ended has none; TimeoutError is raised only by the
\* deadline check (never on a "failed" tag) and RuntimeError only on a "failed"
\* tag.
C8_OneOutcome ==
    /\ SA.pc = "done" <=> SA.outcome.kind # "none"
    /\ SA.outcome.kind \in {"none", "return", "RuntimeError", "TimeoutError",
                            "ValueError", "KeyError", "TypeError", "AttributeError"}
                           \cup TransportKinds
    /\ SA.outcome.kind = "TimeoutError"
          => AllPending(SA.observed) /\ SA.elapsed > SA.max_wait
    /\ SA.outcome.kind = "RuntimeError" <=> (SA.pc = "done" /\ LastObserved(SA) = "failed")
    /\ SA.outcome.kind = "ValueError" <=> (SA.pc = "done" /\ LastObserved(SA) \in UnknownTags)
    /\ SA.outcome.kind = "return" <=> (SA.pc = "done" /\ LastObserved(SA) = "completed")

C8_Witness ==
    /\ SA.pc = "done" /\ SA.outcome.kind = "RuntimeError"
    /\ TrueElapsed(SA) > SA.max_wait

SB == sess["B"]

\* What a session does and how it ends: everything but the verbose flag and
\* the printed lines.
Control(s) ==
    [pc |-> s.pc, outcome |-> s.outcome, trace |-> s.trace, observed |-> s.observed,
     fetchIds |-> s.fetchIds, fetchAt |-> s.fetchAt, generation_id |-> s.generation_id,
     start_time |-> s.start_time, elapsed |-> s.elapsed, result |-> s.result,
     status |-> s.status]

\* C9: with the same poll_interval, max_wait, server responses and clock
\* readings, the session with verbose=False performs the same creates, fetches
\* and sleeps and ends with the same outcome as the session with verbose=True;
\* only the printed lines differ.
C9_VerboseNoControlFlow ==
    /\ SA.verbose /\ ~SB.verbose
    /\ Control(SA) = Control(SB)
    /\ SB.out = <<>>

C9_Witness ==
    /\ SA.pc = "done" /\ SB.pc = "done"
    /\ SA.outcome.kind = "return"
    /\ Count(SA.trace, "sleep") = 2
    /\ Len(SA.out) = 6 /\ SB.out = <<>>

Scenario(s) ==
    /\ s.poll_interval = 1 /\ s.max_wait = 5
    /\ s.observed = <<"pending", "pending", "completed">>
    /\ s.served.result = "X"
    /\ s.pc = "done"

\* C10 as claimed: with interval=1, deadline=5 and the fetch sequence [pending,
\* pending, completed with result "X"], the session performs 3 fetches and 2
\* sleeps, returns the body with result "X" and ends with elapsed time <= 5.
C10_Original ==
    Scenario(SA) =>
        /\ Count(SA.trace, "fetch") = 3
        /\ Count(SA.trace, "sleep") = 2
        /\ SA.outcome = [kind |-> "return", payload |-> SA.served, detail |-> "-"]
        /\ TrueElapsed(SA) <= 5

\* C10 amended: the same, provided the status fetches take at most 3 ticks in
\* total; and within that budget the session does not time out before its third
\* fetch.
C10_ScenarioFastFetches ==
    /\ Scenario(SA) /\ SA.fetchTime <= 3 =>
          /\ Count(SA.trace, "fetch") = 3
          /\ Count(SA.trace, "sleep") = 2
          /\ SA.outcome = [kind |-> "return", payload |-> SA.served, detail |-> "-"]
          /\ SA.outcome.payload.result = "X"
          /\ TrueElapsed(SA) <= 5
    /\ (/\ SA.poll_interval = 1 /\ SA.max_wait = 5
        /\ SA.outcome.kind = "TimeoutError"
        /\ Len(SA.observed) <= 2) => SA.fetchTime > 3

C10_Witness == Scenario(SA) /\ SA.fetchTime = 3 /\ TrueElapsed(SA) = 5

\* The number of fetches among the first i entries of the trace.
FetchesUpTo(s, i) == Cardinality({j \in 1..i : s.trace[j] = "fetch"})

\* C15: every status fetch of a session uses the handle its create call
\* returned; no fetch is issued before create has returned it, and the handle,
\* once obtained, does not change.
C15_HandleIsSessionKey ==
    /\ [](Fetches(SA) > 0 =>
            /\ SA.trace[1] = "create" /\ Count(SA.trace, "create") = 1
            /\ SA.generation_id # "None"
            /\ SA.generation_id = SA.createdWith
            /\ \A i \in 1..Len(SA.fetchIds) : SA.fetchIds[i] = SA.createdWith)
    /\ [][SA.generation_id # "None" => SA'.generation_id = SA.generation_id]_vars

C15_Witness ==
    /\ SA.pc = "done" /\ SA.createdWith = "g2"
    /\ SA.fetchIds = <<"g2", "g2", "g2">>

\* C16: fetches and sleeps alternate: every sleep directly follows a fetch
\* that returned "pending" and lasts poll_interval, no two fetches are adjacent,
\* and a session that has ended slept once per "pending" observation.
C16_FetchSleepAlternate ==
    /\ [](\A i \in 1..Len(SA.trace) :
            /\ SA.trace[i] = "sleep" =>
                  /\ i > 1 /\ SA.trace[i - 1] = "fetch"
                  /\ SA.observed[FetchesUpTo(SA, i)] = "pending"
            /\ SA.trace[i] = "fetch" => i > 1 /\ SA.trace[i - 1] # "fetch")
    /\ [](SA.pc = "done" => Count(SA.trace, "sleep") = Count(SA.observed, "pending"))
    /\ [][SA'.trace = Append(SA.trace, "sleep") => now' = now + SA.poll_interval]_vars

C16_Witness ==
    /\ SA.pc = "done"
    /\ SA.trace = <<"create", "fetch", "sleep", "fetch", "sleep", "fetch">>
    /\ SA.observed = <<"pending", "pending", "failed">>
    /\ SA.poll_interval = 2

\* C17: TimeoutError is the outcome only of a session that observed nothing
\* but "pending"; an observation other than "pending" is the session's last:
\* nothing is fetched or slept after it and the outcome is not TimeoutError.
C17_TimeoutOnlyWhilePending ==
    /\ SA.outcome.kind = "TimeoutError" => AllPending(SA.observed)
    /\ \A i \in 1..Len(SA.observed) :
          SA.observed[i] # "pending" =>
              /\ i = Len(SA.observed)
              /\ Last(SA.trace) = "fetch"
              /\ SA.pc \in {"classify", "done"}
              /\ SA.outcome.kind # "TimeoutError"

\* A terminal tag observed by a fetch that returned after the deadline.
C17_Witness ==
    /\ SA.pc = "done" /\ LastObserved(SA) = "failed"
    /\ Len(SA.observed) >= 2
    /\ TrueElapsed(SA) > SA.max_wait

\* C18: a fetch that started within the deadline is classified by its tag
\* alone, whatever the clock says when it returns: "completed" returns the
\* body, "pending" goes to a sleep of the whole poll_interval.
C18_DeadlineOnlyBeforeFetch ==
    /\ [](SA.pc \in {"classify", "sleep"} => SA.fetchAt <= SA.max_wait)
    /\ [][/\ SA.pc = "classify" /\ SA.status = "completed"
                => SA'.pc = "done" /\ SA'.outcome.kind = "return"
                   /\ SA'.outcome.payload = SA.served
          /\ SA.pc = "classify" /\ SA.status = "pending" => SA'.pc = "sleep"
          /\ SA.pc = "sleep"
                => SA'.pc = "while" /\ now' = now + SA.poll_interval]_vars

\* A body returned after the deadline, and after a sleep that crossed it.
C18_Witness ==
    /\ SA.pc = "done" /\ SA.outcome.kind = "return"
    /\ TrueElapsed(SA) > SA.max_wait
    /\ Count(SA.trace, "sleep") >= 1

\* C19: with instantaneous fetches the k-th fetch is issued at elapsed
\* (k-1) * poll_interval, and an always-pending session raises TimeoutError
\* after max_wait \div poll_interval + 1 fetches, at elapsed
\* (max_wait \div poll_interval + 1) * poll_interval: past the deadline by at
\* most poll_interval.
C19_FetchCount ==
    SA.fetchTime = 0 =>
        /\ Fetches(SA) > 0 => SA.fetchAt = (Fetches(SA) - 1) * SA.poll_interval
        /\ SA.outcome.kind = "TimeoutError" =>
              /\ Fetches(SA) = (SA.max_wait \div SA.poll_interval) + 1
              /\ SA.elapsed = ((SA.max_wait \div SA.poll_interval) + 1) * SA.poll_interval
              /\ SA.elapsed = TrueElapsed(SA)
              /\ SA.elapsed > SA.max_wait
              /\ SA.elapsed - SA.max_wait <= SA.poll_interval

\* The deadline is a multiple of the interval: a fetch is issued at elapsed = max_wait.
C19_Witness ==
    /\ SA.outcome.kind = "TimeoutError" /\ SA.fetchTime = 0
    /\ SA.max_wait = 4 /\ SA.poll_interval = 2
    /\ SA.fetchAt = SA.max_wait

\* Everything a session did and printed, but not the instance it ran on.
Behaviour(s) == [s EXCEPT !.self = "-"]

Printed(seq, text) == \E i \in 1..Len(seq) : seq[i] = text

\* No create, status-fetch or listing request has been issued.
NoNetwork == SA.trace = <<>> /\ cmd.requests = <<>>

\* C11: when GAMMA_API_KEY is unset or empty, in either command no client is
\* ever constructed, no create, status-fetch or listing request is ever
\* issued, the command never gets past the construction of the client, and
\* when it has exited its status is 1.
C11_NoKeyNoNetwork ==
    cmd.key \in {"None", ""} =>
        /\ NoNetwork
        /\ cmd.api_key = "-"
        /\ cmd.pc \in {"main", "client", "exit"}
        /\ cmd.pc = "exit" => cmd.exit = "1"

\* A valid payload on standard input and an empty key: the construction of
\* the client has failed with the configuration error.
C11_Witness ==
    /\ cmd.prog = "generate" /\ cmd.key = ""
    /\ cmd.payload = [shape |-> "object", names |-> required_fields]
    /\ cmd.pc = "exit" /\ cmd.exit = "1"
    /\ Printed(cmd.stderr, "Error: API key required")
    /\ NoNetwork

\* The payload is a JSON object with the field f.
HasField(payload, f) == payload.shape = "object" /\ f \in payload.names

LacksRequired(payload) == \E f \in required_fields : ~HasField(payload, f)

\* C12: when the payload read by generate_presentation lacks a required
\* field, the command issues no network request and never exits with
\* status 0.
C12_MissingFieldRejected ==
    (/\ cmd.prog = "generate"
     /\ cmd.payload.shape # "-"
     /\ LacksRequired(cmd.payload)) =>
        /\ NoNetwork
        /\ cmd.exit # "0"

\* The summary of the result locations and the quota usage is on stdout.
Summary ==
    /\ Printed(cmd.stdout, "View in Gamma")
    /\ Printed(cmd.stdout, "Credits used")
    /\ Printed(cmd.stdout, "Credits remaining")

Diagnostic == cmd.stderr # <<>>

\* The session of generate_presentation has ended and the command has exited.
Reported == cmd.prog = "generate" /\ cmd.pc = "exit" /\ SA.pc = "done"

Printable(payload) == payload.gammaUrl = "url" /\ payload.credits # "null"

====
